---- MODULE Spec2Model ----
(***************************************************************************)
(* Model of src/app.py: class GestionTurnos, the appointment ("turnos")    *)
(* part.  The state is the content of the SQLite file the object is        *)
(* connected to.  crear_tablas (lines 23-70) creates nothing: its first     *)
(* statement starts with CREATE DATABASE, which SQLite rejects, and the     *)
(* sqlite3.Error is caught.  So the tables are there only when the file     *)
(* named by db_name already held them; this is the variable tablas.  The    *)
(* columns of turnos are the ones the statements of lines 155-158,          *)
(* 173-181 and 233-239 name.                                                *)
(*                                                                         *)
(* Time is counted in minutes from an arbitrary origin.  A fecha_hora      *)
(* string is modelled by the minute it denotes and by how it is written:   *)
(*   "padded"   - 'YYYY-MM-DD HH:MM' with every field zero-padded;         *)
(*   "unpadded" - a string strptime('%Y-%m-%d %H:%M') accepts but that is  *)
(*                not zero-padded, e.g. '2025-11-20 9:00';                 *)
(*   "invalid"  - a string strptime rejects.                               *)
(*                                                                         *)
(* pacientes and medicos hold the id and the unique column (dni,           *)
(* matricula) of the registered rows.  ultimo is the last call that        *)
(* returned, with its return value and the message it printed.  pc, pend,  *)
(* tx and sombra describe two GestionTurnos objects connected to the same  *)
(* file: where each one is inside a method, its transaction and file       *)
(* lock, and the table with the uncommitted writes of the writer.          *)
(***************************************************************************)
EXTENDS Integers, FiniteSets, Sequences, TLC

VARIABLES tablas, pacientes, medicos, turnos, ultimo, pc, pend, tx, sombra

vars == <<tablas, pacientes, medicos, turnos, ultimo, pc, pend, tx, sombra>>

\* ---------------------------------------------------------------- bounds
MaxTurnos == 2
MaxTime == 1
MaxDur == 2
MaxMedicos == 2
\* Time units of the model in one calendar day.
MinutosPorDia == 2

\* ---------------------------------------------------------------- inputs
Pacientes == {1, 2}
Medicos == {1, 2}
Duraciones == {-1} \cup (0..MaxDur)
Conexiones == {1, 2}
Principal == 1

FechaHoras ==
    {[min |-> t, fmt |-> f] : t \in 0..MaxTime, f \in {"padded", "unpadded"}}
        \cup {[min |-> 0, fmt |-> "invalid"]}

estados_validos == {"pendiente", "confirmado", "cancelado", "completado"}

EstadosPedidos == estados_validos \cup {"otro"}

SinObservaciones == "NULL"

ObservacionesPedidas == {SinObservaciones, "", "obs"}

\* Return values: crear_turno returns lastrowid (>= 1) or None.
None == 0

Dnis == {"d1", "d2"}

Matriculas == {"m1", "m2"}

\* The patient records a file may hold when it is opened: registrar_paciente
\* adds none, so a stored patient is one the file already held.  dni is UNIQUE.
PacientesPrevios == {{}, {[id |-> 1, dni |-> "d1"]}}

\* ------------------------------------------------- Python datetime side
\* datetime.strptime(fecha_hora, '%Y-%m-%d %H:%M') raises ValueError on a
\* string that does not match; it accepts fields that are not zero-padded.
StrptimeOk(fecha_hora) == fecha_hora.fmt # "invalid"

Strptime(fecha_hora) == fecha_hora.min

\* dt.strftime('%Y-%m-%d %H:%M') always writes zero-padded fields.
Strftime(t) == [min |-> t, fmt |-> "padded"]

\* ------------------------------------------------------ SQLite side
\* SQL values are NULL or an integer; conditions are three-valued.
NULL == [null |-> TRUE, v |-> 0]

Val(n) == [null |-> FALSE, v |-> n]

\* datetime(s): NULL unless s is a time string SQLite recognises, and SQLite
\* recognises only zero-padded fields.
SqlDatetime(s) == IF s.fmt = "padded" THEN Val(s.min) ELSE NULL

\* datetime(s, '+' || duracion || ' minutes'): the modifier is '+-1 minutes'
\* for a negative duracion, which SQLite rejects, and the result is NULL.
SqlDatetimeMas(s, duracion) ==
    IF s.fmt = "padded" /\ duracion >= 0 THEN Val(s.min + duracion) ELSE NULL

SqlLt(x, y) == IF x.null \/ y.null THEN "U" ELSE IF x.v < y.v THEN "T" ELSE "F"

SqlGt(x, y) == SqlLt(y, x)

SqlGe(x, y) == IF x.null \/ y.null THEN "U" ELSE IF x.v >= y.v THEN "T" ELSE "F"

SqlAnd(p, q) ==
    IF p = "F" \/ q = "F" THEN "F" ELSE IF p = "T" /\ q = "T" THEN "T" ELSE "U"

SqlOr(p, q) ==
    IF p = "T" \/ q = "T" THEN "T" ELSE IF p = "F" /\ q = "F" THEN "F" ELSE "U"

\* The WHERE clause of the SELECT COUNT(*) of verificar_disponibilidad, for
\* one row r; the parameters are bound in the order (medico_id, dt_fin, dt,
\* dt, dt_fin).
Solapa(r, ini, fin) ==
    SqlOr(SqlAnd(SqlLt(SqlDatetime(r.fecha_hora), SqlDatetime(fin)),
                 SqlGt(SqlDatetimeMas(r.fecha_hora, r.duracion), SqlDatetime(ini))),
          SqlAnd(SqlGe(SqlDatetime(r.fecha_hora), SqlDatetime(ini)),
                 SqlLt(SqlDatetime(r.fecha_hora), SqlDatetime(fin))))

\* The SELECT COUNT(*) without the condition on medico_id.
CountDeTodos(S, medico_id, ini, fin) ==
    Cardinality({r \in S :
        /\ r.estado \in {"pendiente", "confirmado"}
        /\ Solapa(r, ini, fin) = "T"})

\* SELECT COUNT(*) FROM turnos WHERE medico_id = ? AND estado IN (...) AND
\* (...), over the rows S of table turnos.
CountEn(S, medico_id, ini, fin) ==
    Cardinality({r \in S :
        /\ r.medico_id = medico_id
        /\ r.estado \in {"pendiente", "confirmado"}
        /\ Solapa(r, ini, fin) = "T"})

Count(medico_id, ini, fin) == CountEn(turnos, medico_id, ini, fin)

\* verificar_disponibilidad: every exception (no such table, ValueError of
\* strptime) is caught and gives False.
verificar_disponibilidad(medico_id, fecha_hora, duracion) ==
    /\ StrptimeOk(fecha_hora)
    /\ tablas
    /\ Count(medico_id,
             Strftime(Strptime(fecha_hora)),
             Strftime(Strptime(fecha_hora) + duracion)) = 0

\* ------------------------------------------------------------ the store
\* id INTEGER PRIMARY KEY AUTOINCREMENT: one more than the largest rowid.
NextIdEn(S) ==
    IF S = {} THEN 1
    ELSE (CHOOSE n \in {r.id : r \in S} : \A r \in S : r.id <= n) + 1

NextId == NextIdEn(turnos)

\* The state of a row the INSERT of crear_turno does not set: the column's
\* default.
EstadoInicial == "pendiente"

\* A row with the first two parameters of the INSERT bound in the other order.
NuevoTurnoCambiado(paciente_id, medico_id, fecha_hora, duracion) ==
    [id |-> NextId,
     paciente_id |-> medico_id,
     medico_id |-> paciente_id,
     fecha_hora |-> fecha_hora,
     duracion |-> duracion,
     estado |-> EstadoInicial,
     observaciones |-> SinObservaciones]

\* The row the INSERT of crear_turno adds: fecha_hora is stored as the caller
\* wrote it.
NuevoTurno(paciente_id, medico_id, fecha_hora, duracion) ==
    [id |-> NextId,
     paciente_id |-> paciente_id,
     medico_id |-> medico_id,
     fecha_hora |-> fecha_hora,
     duracion |-> duracion,
     estado |-> EstadoInicial,
     observaciones |-> SinObservaciones]

Init ==
    /\ tablas \in BOOLEAN
    /\ pacientes = {}
    /\ medicos = {}
    /\ turnos = {}
    /\ ultimo = [op |-> "init", ret |-> None, msg |-> ""]
    /\ pc = [c \in Conexiones |-> "idle"]
    /\ pend = [c \in Conexiones |-> <<>>]
    /\ tx = [c \in Conexiones |-> "none"]
    /\ sombra = {}

\* The same, on a file that may already hold patient records.
InitPrevio ==
    /\ tablas \in BOOLEAN
    /\ pacientes \in (IF tablas THEN PacientesPrevios ELSE {{}})
    /\ medicos = {}
    /\ turnos = {}
    /\ ultimo = [op |-> "init", ret |-> None, msg |-> ""]
    /\ pc = [c \in Conexiones |-> "idle"]
    /\ pend = [c \in Conexiones |-> <<>>]
    /\ tx = [c \in Conexiones |-> "none"]
    /\ sombra = {}

\* ------------------------------------------------- one instance: actions
\* A registrar_paciente whose INSERT goes through whatever dni is stored.
registrar_paciente_inserta(dni) ==
    /\ pc[Principal] = "idle"
    /\ tablas
    /\ Cardinality(pacientes) < Cardinality(Dnis)
    /\ pacientes' = pacientes \cup {[id |-> Cardinality(pacientes) + 1, dni |-> dni]}
    /\ ultimo' = [op |-> "registrar_paciente", ret |-> Cardinality(pacientes) + 1,
                  msg |-> "Paciente registrado", dni |-> dni]
    /\ UNCHANGED <<tablas, medicos, turnos, pc, pend, tx, sombra>>

\* registrar_paciente: the INSERT names 8 columns and binds 7 values, SQLite
\* rejects the statement ("7 values for 8 columns", or "no such table"), and
\* the sqlite3.Error is caught: the call returns None and stores nothing.
registrar_paciente(dni) ==
    /\ pc[Principal] = "idle"
    /\ ultimo' = [op |-> "registrar_paciente", ret |-> None,
                  msg |-> "Error al registrar paciente", dni |-> dni]
    /\ UNCHANGED <<tablas, pacientes, medicos, turnos, pc, pend, tx, sombra>>

\* id of medicos: one more than the largest rowid.
NextMedicoId ==
    IF medicos = {} THEN 1
    ELSE (CHOOSE n \in {r.id : r \in medicos} : \A r \in medicos : r.id <= n) + 1

\* registrar_medico: the INSERT fails with "no such table", or with an
\* IntegrityError when the matricula is stored already.
registrar_medico(matricula) ==
    /\ pc[Principal] = "idle"
    /\ IF ~tablas
       THEN /\ medicos' = medicos
            /\ ultimo' = [op |-> "registrar_medico", ret |-> None,
                          msg |-> "Error al registrar medico"]
       ELSE IF \E r \in medicos : r.matricula = matricula
       THEN /\ medicos' = medicos
            /\ ultimo' = [op |-> "registrar_medico", ret |-> None,
                          msg |-> "Ya existe un medico con matricula"]
       ELSE /\ Cardinality(medicos) < MaxMedicos
            /\ medicos' = medicos \cup {[id |-> NextMedicoId, matricula |-> matricula]}
            /\ ultimo' = [op |-> "registrar_medico", ret |-> NextMedicoId,
                          msg |-> "Medico registrado"]
    /\ UNCHANGED <<tablas, pacientes, turnos, pc, pend, tx, sombra>>

\* crear_turno, run to its return with no other connection in between.
crear_turno(paciente_id, medico_id, fecha_hora, duracion) ==
    /\ pc[Principal] = "idle"
    /\ IF verificar_disponibilidad(medico_id, fecha_hora, duracion)
       THEN /\ Cardinality(turnos) < MaxTurnos
            /\ turnos' = turnos \cup
                   {NuevoTurno(paciente_id, medico_id, fecha_hora, duracion)}
            /\ ultimo' = [op |-> "crear_turno", ret |-> NextId, msg |-> "Turno creado"]
       ELSE /\ turnos' = turnos
            /\ ultimo' = [op |-> "crear_turno", ret |-> None,
                          msg |-> "El medico no esta disponible"]
    /\ UNCHANGED <<tablas, pacientes, medicos, pc, pend, tx, sombra>>

\* The UPDATE of actualizar_estado_turno applied to one row.
\* An UPDATE without its WHERE clause.
ActualizadoSinWhere(r, turno_id, nuevo_estado, observaciones) ==
    IF observaciones \notin {SinObservaciones, ""}
    THEN [r EXCEPT !.estado = nuevo_estado, !.observaciones = observaciones]
    ELSE [r EXCEPT !.estado = nuevo_estado]

\* An UPDATE that always takes the branch that sets observaciones.
ActualizadoConObservaciones(r, turno_id, nuevo_estado, observaciones) ==
    IF r.id # turno_id THEN r
    ELSE [r EXCEPT !.estado = nuevo_estado, !.observaciones = observaciones]

\* The row r after the UPDATE; `if observaciones:` is false for None and "".
Actualizado(r, turno_id, nuevo_estado, observaciones) ==
    IF r.id # turno_id THEN r
    ELSE IF observaciones \notin {SinObservaciones, ""}
         THEN [r EXCEPT !.estado = nuevo_estado, !.observaciones = observaciones]
         ELSE [r EXCEPT !.estado = nuevo_estado]

\* actualizar_estado_turno without the test against estados_validos.
actualizar_estado_turno_sin_validar(turno_id, nuevo_estado, observaciones) ==
    /\ pc[Principal] = "idle"
    /\ IF ~tablas
       THEN /\ turnos' = turnos
            /\ ultimo' = [op |-> "actualizar_estado_turno", ret |-> FALSE,
                          msg |-> "Error al actualizar estado"]
       ELSE /\ turnos' =
                {Actualizado(r, turno_id, nuevo_estado, observaciones) : r \in turnos}
            /\ ultimo' = [op |-> "actualizar_estado_turno",
                          ret |-> (\E r \in turnos : r.id = turno_id),
                          msg |-> IF \E r \in turnos : r.id = turno_id
                                  THEN "Estado del turno actualizado"
                                  ELSE "No se encontro el turno especificado"]
    /\ UNCHANGED <<tablas, pacientes, medicos, pc, pend, tx, sombra>>

actualizar_estado_turno(turno_id, nuevo_estado, observaciones) ==
    /\ pc[Principal] = "idle"
    /\ IF nuevo_estado \notin estados_validos \/ ~tablas
       THEN /\ turnos' = turnos
            /\ ultimo' = [op |-> "actualizar_estado_turno", ret |-> FALSE,
                          msg |-> IF nuevo_estado \notin estados_validos
                                  THEN "Estado invalido"
                                  ELSE "Error al actualizar estado"]
       ELSE /\ turnos' =
                {Actualizado(r, turno_id, nuevo_estado, observaciones) : r \in turnos}
            /\ ultimo' = [op |-> "actualizar_estado_turno",
                          ret |-> (\E r \in turnos : r.id = turno_id),
                          msg |-> IF \E r \in turnos : r.id = turno_id
                                  THEN "Estado del turno actualizado"
                                  ELSE "No se encontro el turno especificado"]
    /\ UNCHANGED <<tablas, pacientes, medicos, pc, pend, tx, sombra>>

\* ------------------------------------------------ one instance: readers
\* The calendar day of t time units.
Dia(t) == t \div MinutosPorDia

\* SQLite DATE(fecha_hora): NULL when the text is not a zero-padded
\* timestamp.
SqlDate(s) == IF s.fmt = "padded" THEN Val(Dia(s.min)) ELSE NULL

\* Rank of the text fecha_hora under SQLite's BINARY collation.  Model times
\* stand for hours before 10:00, the ones that can be written unpadded:
\* within one date '0H:MM' sorts before every 'H:MM', and each spelling
\* sorts by time.
TextoRango(s) ==
    (Dia(s.min) * 2 + (IF s.fmt = "padded" THEN 0 ELSE 1)) * (MaxTime + 2) + s.min

\* Row r comes before row q in ORDER BY fecha_hora [DESC]; rows of equal
\* fecha_hora stay in the order of the table scan, by id.
Antes(r, q, desc) ==
    \/ r = q
    \/ IF desc THEN TextoRango(r.fecha_hora) > TextoRango(q.fecha_hora)
               ELSE TextoRango(r.fecha_hora) < TextoRango(q.fecha_hora)
    \/ TextoRango(r.fecha_hora) = TextoRango(q.fecha_hora) /\ r.id < q.id

RECURSIVE EnOrden(_, _)
EnOrden(S, desc) ==
    IF S = {} THEN <<>>
    ELSE LET r == CHOOSE x \in S : \A q \in S : Antes(x, q, desc)
         IN  <<r>> \o EnOrden(S \ {r}, desc)

\* The columns of turnos that the two listings select.
Fila(r) ==
    [id |-> r.id, paciente_id |-> r.paciente_id, medico_id |-> r.medico_id,
     fecha_hora |-> r.fecha_hora, duracion |-> r.duracion, estado |-> r.estado]

\* fetchall() of listar_turnos_por_fecha: turnos JOIN pacientes JOIN medicos
\* WHERE DATE(t.fecha_hora) = ? ORDER BY t.fecha_hora.
TurnosPorFecha(fecha) ==
    EnOrden({Fila(r) : r \in {x \in turnos :
                 /\ x.paciente_id \in {q.id : q \in pacientes}
                 /\ x.medico_id \in {q.id : q \in medicos}
                 /\ SqlDate(x.fecha_hora) = Val(fecha)}}, FALSE)

\* fetchall() of listar_turnos_paciente: turnos JOIN medicos WHERE
\* t.paciente_id = ? ORDER BY t.fecha_hora DESC.
TurnosPaciente(paciente_id) ==
    EnOrden({Fila(r) : r \in {x \in turnos :
                 /\ x.medico_id \in {q.id : q \in medicos}
                 /\ x.paciente_id = paciente_id}}, TRUE)

listar_turnos_por_fecha(fecha) ==
    /\ pc[Principal] = "idle"
    /\ ultimo' = [op |-> "listar_turnos_por_fecha",
                  ret |-> IF tablas THEN TurnosPorFecha(fecha) ELSE <<>>,
                  msg |-> IF tablas THEN "" ELSE "Error al listar turnos",
                  arg |-> fecha]
    /\ UNCHANGED <<tablas, pacientes, medicos, turnos, pc, pend, tx, sombra>>

\* A listing that marks the appointments it returns as completed.
listar_turnos_paciente_marca(paciente_id) ==
    /\ pc[Principal] = "idle"
    /\ ultimo' = [op |-> "listar_turnos_paciente",
                  ret |-> IF tablas THEN TurnosPaciente(paciente_id) ELSE <<>>,
                  msg |-> IF tablas THEN "" ELSE "Error al listar turnos del paciente",
                  arg |-> paciente_id,
                  rep |-> /\ ultimo.op = "listar_turnos_paciente"
                          /\ ultimo.arg = paciente_id]
    /\ turnos' = {IF r.paciente_id = paciente_id
                  THEN [r EXCEPT !.estado = "completado"] ELSE r : r \in turnos}
    /\ UNCHANGED <<tablas, pacientes, medicos, pc, pend, tx, sombra>>

\* rep records that the call before this one was the same call.
listar_turnos_paciente(paciente_id) ==
    /\ pc[Principal] = "idle"
    /\ ultimo' = [op |-> "listar_turnos_paciente",
                  ret |-> IF tablas THEN TurnosPaciente(paciente_id) ELSE <<>>,
                  msg |-> IF tablas THEN "" ELSE "Error al listar turnos del paciente",
                  arg |-> paciente_id,
                  rep |-> /\ ultimo.op = "listar_turnos_paciente"
                          /\ ultimo.arg = paciente_id]
    /\ UNCHANGED <<tablas, pacientes, medicos, turnos, pc, pend, tx, sombra>>

\* A call of verificar_disponibilidad by the user of the class.
consultar_disponibilidad(medico_id, fecha_hora, duracion) ==
    /\ pc[Principal] = "idle"
    /\ ultimo' = [op |-> "verificar_disponibilidad",
                  ret |-> verificar_disponibilidad(medico_id, fecha_hora, duracion),
                  msg |-> IF StrptimeOk(fecha_hora) /\ tablas
                          THEN "" ELSE "Error al verificar disponibilidad"]
    /\ UNCHANGED <<tablas, pacientes, medicos, turnos, pc, pend, tx, sombra>>

\* ------------------------------------- two instances on one file: steps
\* crear_turno of connection c up to the return of verificar_disponibilidad:
\* the SELECT runs outside any transaction, so other connections may write
\* before the INSERT.
crear_turno_verificar(c, paciente_id, medico_id, fecha_hora, duracion) ==
    /\ pc[c] = "idle"
    /\ IF verificar_disponibilidad(medico_id, fecha_hora, duracion)
       THEN /\ Cardinality(turnos) + Cardinality({k \in Conexiones : pc[k] = "insert"})
                   < MaxTurnos
            /\ pc' = [pc EXCEPT ![c] = "insert"]
            /\ pend' = [pend EXCEPT ![c] = <<paciente_id, medico_id, fecha_hora, duracion>>]
            /\ ultimo' = ultimo
       ELSE /\ ultimo' = [op |-> "crear_turno", ret |-> None,
                          msg |-> "El medico no esta disponible"]
            /\ UNCHANGED <<pc, pend>>
    /\ UNCHANGED <<tablas, pacientes, medicos, turnos, tx, sombra>>

\* The INSERT and commit of connection c, and the return of lastrowid.
crear_turno_insertar(c) ==
    /\ pc[c] = "insert"
    /\ turnos' = turnos \cup {NuevoTurno(pend[c][1], pend[c][2], pend[c][3], pend[c][4])}
    /\ ultimo' = [op |-> "crear_turno", ret |-> NextId, msg |-> "Turno creado"]
    /\ pc' = [pc EXCEPT ![c] = "idle"]
    /\ pend' = [pend EXCEPT ![c] = <<>>]
    /\ UNCHANGED <<tablas, pacientes, medicos, tx, sombra>>

\* ------------------------- two instances on one file: statements and locks
\* tx[c] is the transaction of connection c and the file lock it holds:
\*   "none"     - no transaction (autocommit);
\*   "open"     - sqlite3 has issued BEGIN before a write that then failed;
\*                nothing commits or rolls back, no lock is held yet;
\*   "shared"   - an open transaction that has read: SHARED lock, kept;
\*   "reserved" - an open transaction that has written: RESERVED lock;
\*   "pending"  - a writer whose commit failed: it keeps the PENDING lock.
\* sombra is table turnos with the uncommitted writes of the one connection
\* that holds RESERVED or PENDING.
Visible(c) == IF tx[c] \in {"reserved", "pending"} THEN sombra ELSE turnos

OtroEscribe(c) == \E k \in Conexiones \ {c} : tx[k] \in {"reserved", "pending"}

OtroPendiente(c) == \E k \in Conexiones \ {c} : tx[k] = "pending"

OtroLee(c) == \E k \in Conexiones \ {c} : tx[k] = "shared"

\* A SELECT of c gets the SHARED lock unless another connection holds
\* PENDING; a connection that holds a lock already reads under it.
PuedeLeer(c) == tx[c] \in {"shared", "reserved", "pending"} \/ ~OtroPendiente(c)

\* An INSERT or UPDATE of c gets the RESERVED lock unless another connection
\* holds it (or PENDING).
PuedeEscribir(c) == tx[c] \in {"reserved", "pending"} \/ ~OtroEscribe(c)

\* The transaction of c after a statement that wrote.
TrasEscribir(c) == IF tx[c] = "pending" THEN "pending" ELSE "reserved"

\* The transaction of c after a write that failed on the lock: the implicit
\* BEGIN stays.
TrasFallar(c) == IF tx[c] = "none" THEN "open" ELSE tx[c]

\* crear_turno of connection c up to the return of verificar_disponibilidad.
\* A SELECT that cannot get its lock within the timeout of sqlite3.connect
\* raises "database is locked", which verificar_disponibilidad turns into
\* False.
crear_turno_select(c, paciente_id, medico_id, fecha_hora, duracion) ==
    /\ pc[c] = "idle"
    /\ IF /\ StrptimeOk(fecha_hora) /\ tablas /\ PuedeLeer(c)
          /\ CountEn(Visible(c), medico_id, Strftime(Strptime(fecha_hora)),
                     Strftime(Strptime(fecha_hora) + duracion)) = 0
       THEN /\ Cardinality({r.id : r \in turnos \cup sombra})
                   + Cardinality({k \in Conexiones : pc[k] = "insert"}) < MaxTurnos
            /\ pc' = [pc EXCEPT ![c] = "insert"]
            /\ pend' = [pend EXCEPT ![c] = <<paciente_id, medico_id, fecha_hora, duracion>>]
            /\ ultimo' = ultimo
       ELSE /\ ultimo' = [op |-> "crear_turno", ret |-> None,
                          msg |-> "El medico no esta disponible"]
            /\ UNCHANGED <<pc, pend>>
    /\ tx' = IF StrptimeOk(fecha_hora) /\ tablas /\ PuedeLeer(c) /\ tx[c] = "open"
             THEN [tx EXCEPT ![c] = "shared"] ELSE tx
    /\ UNCHANGED <<tablas, pacientes, medicos, turnos, sombra>>

\* The INSERT of connection c.  When another connection holds the write
\* lock the statement raises "database is locked" (at once, or when the
\* timeout is over) and crear_turno returns None.
crear_turno_insert(c) ==
    /\ pc[c] = "insert"
    /\ IF PuedeEscribir(c)
       THEN /\ sombra' = Visible(c) \cup
                   {[NuevoTurno(pend[c][1], pend[c][2], pend[c][3], pend[c][4])
                        EXCEPT !.id = NextIdEn(Visible(c))]}
            /\ tx' = [tx EXCEPT ![c] = TrasEscribir(c)]
            /\ pc' = [pc EXCEPT ![c] = "commit"]
            /\ pend' = [pend EXCEPT ![c] =
                           <<"crear_turno", NextIdEn(Visible(c)), "Turno creado">>]
            /\ ultimo' = ultimo
       ELSE /\ tx' = [tx EXCEPT ![c] = TrasFallar(c)]
            /\ pc' = [pc EXCEPT ![c] = "idle"]
            /\ pend' = [pend EXCEPT ![c] = <<>>]
            /\ ultimo' = [op |-> "crear_turno", ret |-> None,
                          msg |-> "Error al crear turno"]
            /\ sombra' = sombra
    /\ UNCHANGED <<tablas, pacientes, medicos, turnos>>

\* actualizar_estado_turno of connection c up to its UPDATE.
actualizar_estado_turno_update(c, turno_id, nuevo_estado, observaciones) ==
    /\ pc[c] = "idle"
    /\ IF nuevo_estado \in estados_validos /\ tablas /\ PuedeEscribir(c)
       THEN /\ sombra' = {Actualizado(r, turno_id, nuevo_estado, observaciones) :
                              r \in Visible(c)}
            /\ tx' = [tx EXCEPT ![c] = TrasEscribir(c)]
            /\ pc' = [pc EXCEPT ![c] = "commit"]
            /\ pend' = [pend EXCEPT ![c] =
                   IF \E r \in Visible(c) : r.id = turno_id
                   THEN <<"actualizar_estado_turno", TRUE, "Estado del turno actualizado">>
                   ELSE <<"actualizar_estado_turno", FALSE,
                          "No se encontro el turno especificado">>]
            /\ ultimo' = ultimo
       ELSE /\ tx' = IF nuevo_estado \in estados_validos /\ tablas
                     THEN [tx EXCEPT ![c] = TrasFallar(c)] ELSE tx
            /\ ultimo' = [op |-> "actualizar_estado_turno", ret |-> FALSE,
                          msg |-> IF nuevo_estado \notin estados_validos
                                  THEN "Estado invalido"
                                  ELSE "Error al actualizar estado"]
            /\ UNCHANGED <<pc, pend, sombra>>
    /\ UNCHANGED <<tablas, pacientes, medicos, turnos>>

\* What a method returns when its statement or commit raised sqlite3.Error.
RetornoDeError(op) ==
    IF op = "crear_turno"
    THEN [op |-> op, ret |-> None, msg |-> "Error al crear turno"]
    ELSE [op |-> op, ret |-> FALSE, msg |-> "Error al actualizar estado"]

\* A commit with a busy handler that never gives up: it waits for the
\* readers for as long as they hold their lock.
commit_sin_timeout(c) ==
    /\ pc[c] = "commit"
    /\ ~OtroLee(c)
    /\ turnos' = sombra
    /\ sombra' = {}
    /\ tx' = [tx EXCEPT ![c] = "none"]
    /\ ultimo' = [op |-> pend[c][1], ret |-> pend[c][2], msg |-> pend[c][3]]
    /\ pc' = [pc EXCEPT ![c] = "idle"]
    /\ pend' = [pend EXCEPT ![c] = <<>>]
    /\ UNCHANGED <<tablas, pacientes, medicos>>

\* self.conn.commit() of crear_turno or actualizar_estado_turno, and the
\* return of the method.  The commit needs every other connection to have
\* released SHARED; when one holds it past the timeout of sqlite3.connect
\* (5 seconds by default) the commit raises "database is locked", the
\* method returns its failure value and the transaction of c stays open
\* with its writes.
commit(c) ==
    /\ pc[c] = "commit"
    /\ IF ~OtroLee(c)
       THEN /\ turnos' = sombra
            /\ sombra' = {}
            /\ tx' = [tx EXCEPT ![c] = "none"]
            /\ ultimo' = [op |-> pend[c][1], ret |-> pend[c][2], msg |-> pend[c][3]]
       ELSE /\ tx' = [tx EXCEPT ![c] = "pending"]
            /\ ultimo' = RetornoDeError(pend[c][1])
            /\ UNCHANGED <<turnos, sombra>>
    /\ pc' = [pc EXCEPT ![c] = "idle"]
    /\ pend' = [pend EXCEPT ![c] = <<>>]
    /\ UNCHANGED <<tablas, pacientes, medicos>>

\* ------------------------------------------------------- specifications
\* Requests as a caller that validates them sends them: zero-padded
\* timestamps and positive durations.
FechaHorasBien == {f \in FechaHoras : f.fmt = "padded"}

DuracionesBien == 1..MaxDur

\* One instance, crear_turno calls only, with every kind of argument.
NextCrear ==
    \E p \in Pacientes, m \in Medicos, f \in FechaHoras, d \in Duraciones :
        crear_turno(p, m, f, d)

SpecCrear == Init /\ [][NextCrear]_vars

\* One instance, crear_turno with validated arguments and every
\* actualizar_estado_turno call.
Next ==
    \/ \E p \in Pacientes, m \in Medicos, f \in FechaHorasBien, d \in DuracionesBien :
           crear_turno(p, m, f, d)
    \/ \E t \in 1..(MaxTurnos + 1), e \in EstadosPedidos, o \in ObservacionesPedidas :
           actualizar_estado_turno(t, e, o)

Spec == Init /\ [][Next]_vars

\* Two instances connected to the same file, crear_turno with validated
\* arguments.
NextConc ==
    \/ \E c \in Conexiones, p \in Pacientes, m \in Medicos,
          f \in FechaHorasBien, d \in DuracionesBien :
           crear_turno_verificar(c, p, m, f, d)
    \/ \E c \in Conexiones : crear_turno_insertar(c)

SpecConc == Init /\ [][NextConc]_vars

\* One instance on a file that may hold patient records: both registrations
\* and crear_turno with validated arguments.
FechaHorasCero == {f \in FechaHorasBien : f.min = 0}

NextRegistro ==
    \/ \E dni \in Dnis : registrar_paciente(dni)
    \/ \E matricula \in Matriculas : registrar_medico(matricula)
    \/ \E p \in Pacientes, m \in Medicos, f \in FechaHorasCero, d \in DuracionesBien :
           crear_turno(p, m, f, d)

SpecRegistro == InitPrevio /\ [][NextRegistro]_vars

\* One instance, appointments of one patient with one physician for one
\* interval (a second one is created once the first is cancelled or
\* completed), and every actualizar_estado_turno call.
UnPaciente == {1}
UnMedico == {1}
UnaDuracion == {1}

NextEstado ==
    \/ \E p \in UnPaciente, m \in UnMedico, f \in FechaHorasCero, d \in UnaDuracion :
           crear_turno(p, m, f, d)
    \/ \E t \in 1..(MaxTurnos + 1), e \in EstadosPedidos, o \in ObservacionesPedidas :
           actualizar_estado_turno(t, e, o)

SpecEstado == Init /\ [][NextEstado]_vars

\* One instance, appointments of one patient with either physician, every
\* way of writing the start and one duration.
NextMedicos ==
    \E p \in UnPaciente, m \in Medicos, f \in FechaHoras, d \in UnaDuracion :
        crear_turno(p, m, f, d)

SpecMedicos == Init /\ [][NextMedicos]_vars

\* One instance, appointments of one patient with one physician at
\* zero-padded starts with every duration (the ones a validating caller
\* would not pass included), and transitions without observation.
NextLibera ==
    \/ \E p \in UnPaciente, m \in UnMedico, f \in FechaHorasBien, d \in Duraciones :
           crear_turno(p, m, f, d)
    \/ \E t \in 1..MaxTurnos, e \in estados_validos :
           actualizar_estado_turno(t, e, SinObservaciones)

SpecLibera == Init /\ [][NextLibera]_vars

\* One instance on a file that may hold patient records: one physician that
\* may get registered, appointments on two calendar days, and the three
\* readers.
UnaMatricula == {"m1"}
FechaHorasListar ==
    {[min |-> t, fmt |-> f] : t \in 0..(MaxTime + 1), f \in {"padded", "unpadded"}}
UltimoDia == Dia(MaxTime + 1)
Fechas == 0..(UltimoDia + 1)

NextListar ==
    \/ \E matricula \in UnaMatricula : registrar_medico(matricula)
    \/ \E p \in UnPaciente, m \in UnMedico, f \in FechaHorasListar, d \in UnaDuracion :
           crear_turno(p, m, f, d)
    \/ \E fecha \in Fechas : listar_turnos_por_fecha(fecha)
    \/ \E p \in Pacientes : listar_turnos_paciente(p)
    \/ \E m \in UnMedico, f \in FechaHorasListar, d \in UnaDuracion :
           consultar_disponibilidad(m, f, d)

SpecListar == InitPrevio /\ [][NextListar]_vars

\* Two instances, statement by statement, with the locks of the file.  A
\* method that has started keeps running: each of its remaining statements
\* is executed or fails on its lock within the timeout.
UnEstado == {"cancelado"}

NextVivo ==
    \/ \E c \in Conexiones, p \in UnPaciente, m \in UnMedico,
          f \in FechaHorasBien, d \in UnaDuracion :
           crear_turno_select(c, p, m, f, d)
    \/ \E c \in Conexiones : crear_turno_insert(c)
    \/ \E c \in Conexiones, t \in 1..MaxTurnos, e \in UnEstado :
           actualizar_estado_turno_update(c, t, e, SinObservaciones)
    \/ \E c \in Conexiones : commit(c)

SpecVivo ==
    /\ Init
    /\ [][NextVivo]_vars
    /\ \A c \in Conexiones : WF_vars(crear_turno_insert(c)) /\ WF_vars(commit(c))

\* ------------------------------------------------ vocabulary of the claims
\* The interval [Inicio(r), Fin(r)) an appointment was requested for.
Inicio(r) == Strptime(r.fecha_hora)

Fin(r) == Inicio(r) + r.duracion

Activos(S) == {r \in S : r.estado \in {"pendiente", "confirmado"}}

\* Half-open intervals [a,b) and [c,d) overlap iff a < d and c < b.
SeSolapan(a, b, c, d) == a < d /\ c < b

\* No two active appointments of one physician overlap; only appointments of
\* positive duration are compared, the ones whose interval is not empty.
SinSolapamiento(S) ==
    \A r1 \in Activos(S), r2 \in Activos(S) :
        (r1 # r2 /\ r1.medico_id = r2.medico_id /\ r1.duracion > 0 /\ r2.duracion > 0)
            => ~SeSolapan(Inicio(r1), Fin(r1), Inicio(r2), Fin(r2))

\* The active appointments of medico_id, of positive duration, that overlap
\* the interval of a request (fecha_hora, duracion).
EnConflicto(S, medico_id, fecha_hora, duracion) ==
    {r \in Activos(S) :
        /\ r.medico_id = medico_id
        /\ r.duracion > 0
        /\ SeSolapan(Inicio(r), Fin(r),
                     Strptime(fecha_hora), Strptime(fecha_hora) + duracion)}

FechaHorasValidas == {f \in FechaHoras : StrptimeOk(f)}

Terminales == {"cancelado", "completado"}

\* The four states of an appointment.
CuatroEstados == {"pendiente", "confirmado", "cancelado", "completado"}

\* The transition table of the lifecycle.
Permitidas ==
    {<<"pendiente", "confirmado">>, <<"pendiente", "cancelado">>,
     <<"confirmado", "cancelado">>, <<"confirmado", "completado">>}

\* ------------------------------------------------------------------ C1
\* C1: after any sequence of crear_turno calls, the pending or confirmed
\* appointments of each physician have pairwise non-overlapping intervals
\* [start, start+duration).  (SpecCrear.)
C1_SinSolapamientoTrasCrear == SinSolapamiento(turnos)

\* ------------------------------------------------------------------ C2
\* C2: when crear_turno calls of two connections interleave, an INSERT never
\* goes through while an active appointment of that physician overlaps the
\* requested interval, and no state holds two active overlapping
\* appointments of one physician.  (SpecConc.)
C2_CarreraCrear ==
    [][/\ \A c \in Conexiones :
              crear_turno_insertar(c) =>
                  EnConflicto(turnos, pend[c][2], pend[c][3], pend[c][4]) = {}
       /\ SinSolapamiento(turnos')]_vars

\* ------------------------------------------------------------------ C3
\* C3: no step, crear_turno or actualizar_estado_turno, takes a state without
\* overlapping active appointments to a state with them; in particular no
\* transition re-activates an appointment into a booked slot.  (Spec.)
C3_SolapamientoPorTransicion ==
    [][SinSolapamiento(turnos) => SinSolapamiento(turnos')]_vars

\* ------------------------------------------------------------------ C4
\* C4: on a database that holds the tables and only appointments of positive
\* duration, verificar_disponibilidad is true for a physician, a valid start
\* and a positive duration iff no pending or confirmed appointment [a,b) of
\* that physician overlaps the proposed [c,d) under a < d /\ c < b.
\* (SpecCrear.)
C4_DisponibleSiiSinSolapamiento ==
    (tablas /\ \A r \in turnos : r.duracion > 0) =>
        \A m \in Medicos, f \in FechaHorasValidas, d \in DuracionesBien :
            verificar_disponibilidad(m, f, d) <=>
                ~\E r \in Activos(turnos) :
                      /\ r.medico_id = m
                      /\ SeSolapan(Inicio(r), Fin(r), Strptime(f), Strptime(f) + d)

\* ------------------------------------------------------------------ C5
\* C5: with an active appointment [s,e) of physician P, a crear_turno for P
\* that starts at e or ends at s succeeds when that appointment is P's only
\* active one, and a crear_turno for P that starts at e - 1 fails.
\* (SpecCrear.)
C5_FronteraSemiabierta ==
    [][\A p \in Pacientes, m \in Medicos, f \in FechaHorasValidas, d \in DuracionesBien :
          crear_turno(p, m, f, d) =>
              \A r \in Activos(turnos) :
                  (r.medico_id = m /\ r.duracion > 0) =>
                      /\ ( /\ Strptime(f) = Fin(r) \/ Strptime(f) + d = Inicio(r)
                           /\ {q \in Activos(turnos) : q.medico_id = m} = {r} )
                             => ultimo'.ret # None
                      /\ Strptime(f) = Fin(r) - 1 => ultimo'.ret = None]_vars

\* ------------------------------------------------------------------ C6
\* C6: an actualizar_estado_turno call on an appointment that is cancelado or
\* completado returns False and leaves the appointment as it was.  (Spec.)
C6_EstadosTerminales ==
    [][\A t \in 1..(MaxTurnos + 1), e \in EstadosPedidos, o \in ObservacionesPedidas :
          ( /\ actualizar_estado_turno(t, e, o)
            /\ \E r \in turnos : r.id = t /\ r.estado \in Terminales )
              => (ultimo'.ret = FALSE /\ turnos' = turnos)]_vars

\* ------------------------------------------------------------------ C7
\* C7: an actualizar_estado_turno call on an existing appointment returns
\* True only for a pair (current, requested) of the transition table, and
\* for every other pair it returns False and changes nothing.  (Spec.)
C7_TablaDeTransiciones ==
    [][\A t \in 1..(MaxTurnos + 1), e \in EstadosPedidos, o \in ObservacionesPedidas :
          actualizar_estado_turno(t, e, o) =>
              \A r \in turnos :
                  (r.id = t /\ <<r.estado, e>> \notin Permitidas)
                      => (ultimo'.ret = FALSE /\ turnos' = turnos)]_vars

C9_ConflictoNoCrea ==
    [][\A p \in Pacientes, m \in Medicos, f \in FechaHorasValidas, d \in DuracionesBien :
          (crear_turno(p, m, f, d) /\ EnConflicto(turnos, m, f, d) # {})
              => (ultimo'.ret = None /\ turnos' = turnos)]_vars

\* ------------------------------------------------------------------ C10
\* C10: a crear_turno with a duration <= 0 or with a start that is no valid
\* timestamp returns None and stores nothing, so that every stored
\* appointment has a duration > 0.  (SpecCrear.)
C10_ArgumentosInvalidos ==
    [][/\ \A p \in Pacientes, m \in Medicos, f \in FechaHoras, d \in Duraciones :
              (crear_turno(p, m, f, d) /\ (d <= 0 \/ ~StrptimeOk(f)))
                  => (ultimo'.ret = None /\ turnos' = turnos)
       /\ \A r \in turnos' : r.duracion > 0]_vars

\* ------------------------------------------------------------------ C11
\* C11: a crear_turno that names a patient id or a physician id that is not
\* registered returns None and stores nothing, so that every stored
\* appointment references a registered patient and a registered physician.
\* (SpecRegistro.)
C11_ReferenciasRegistradas ==
    [][/\ \A p \in Pacientes, m \in Medicos, f \in FechaHorasCero, d \in DuracionesBien :
              ( /\ crear_turno(p, m, f, d)
                /\ \/ p \notin {q.id : q \in pacientes}
                   \/ m \notin {q.id : q \in medicos} )
                  => (ultimo'.ret = None /\ turnos' = turnos)
       /\ \A r \in turnos' :
              /\ r.paciente_id \in {q.id : q \in pacientes'}
              /\ r.medico_id \in {q.id : q \in medicos'}]_vars

\* ------------------------------------------------------------------ C14
\* C14: once an appointment of a physician is cancelado or completado, a
\* crear_turno for that physician with the same start and the same
\* (positive) duration returns an id, provided no active appointment of the
\* physician overlaps that interval.  (SpecLibera.)
C14_TerminalNoBloquea ==
    [][ultimo'.op = "crear_turno" =>
          \A p \in UnPaciente, m \in UnMedico, f \in FechaHorasBien, d \in DuracionesBien :
              ( /\ crear_turno(p, m, f, d)
                /\ \E a \in turnos :
                       /\ a.medico_id = m
                       /\ a.estado \in Terminales
                       /\ a.fecha_hora = f
                       /\ a.duracion = d
                /\ EnConflicto(turnos, m, f, d) = {} )
                  => ultimo'.ret # None]_vars

\* ------------------------------------------------------------------ C15
\* C15: a registrar_paciente with a dni that a stored patient has returns
\* None and leaves pacientes as it was, and no two stored patients share a
\* dni.  (SpecRegistro.)
C15_DniDuplicado ==
    [][ultimo'.op = "registrar_paciente" =>
          /\ \A dni \in Dnis :
                 (registrar_paciente(dni) /\ \E q \in pacientes : q.dni = dni)
                     => (ultimo'.ret = None /\ pacientes' = pacientes)
          /\ \A q1 \in pacientes', q2 \in pacientes' : q1.dni = q2.dni => q1 = q2]_vars

\* A registrar_paciente with the dni of a stored patient has returned.
C15_Witness ==
    /\ ultimo.op = "registrar_paciente"
    /\ \E q \in pacientes : q.dni = ultimo.dni

\* ------------------------------------------------------------------ C12
\* C12: an actualizar_estado_turno with a turno_id that no stored
\* appointment has does not return True and leaves every stored appointment
\* as it was.  (SpecEstado.)
C12_TurnoInexistente ==
    [][ultimo'.op = "actualizar_estado_turno" =>
          \A t \in 1..(MaxTurnos + 1), e \in EstadosPedidos, o \in ObservacionesPedidas :
              (actualizar_estado_turno(t, e, o) /\ t \notin {r.id : r \in turnos})
                  => (ultimo'.ret # TRUE /\ turnos' = turnos)]_vars

\* A call with a valid state and an id nobody has returned, with
\* appointments stored.
C12_Witness ==
    /\ ultimo.op = "actualizar_estado_turno"
    /\ ultimo.msg = "No se encontro el turno especificado"
    /\ turnos # {}

C16_ListadoPorFecha ==
    [][(ultimo'.op = "listar_turnos_por_fecha"
          /\ \A r \in turnos : /\ r.paciente_id \in {q.id : q \in pacientes}
                               /\ r.medico_id \in {q.id : q \in medicos}) =>
          \A fecha \in Fechas :
              listar_turnos_por_fecha(fecha) =>
                  LET ret == ultimo'.ret IN
                  /\ {ret[i].id : i \in 1..Len(ret)}
                         = {r.id : r \in {x \in turnos : Dia(Inicio(x)) = fecha}}
                  /\ Len(ret) = Cardinality({ret[i].id : i \in 1..Len(ret)})
                  /\ \A i \in 1..Len(ret), j \in 1..Len(ret) :
                         i < j => Inicio(ret[i]) <= Inicio(ret[j])]_vars

\* ------------------------------------------------------------------ C17
ReadOps ==
    {"verificar_disponibilidad", "listar_turnos_por_fecha", "listar_turnos_paciente"}

C18_TodaLlamadaRetorna ==
    \A c \in Conexiones : (pc[c] # "idle") ~> (pc[c] = "idle")

\* A call has returned "database is locked" while the other connection is
\* between its write and its commit.
C18_Witness ==
    /\ tablas
    /\ ultimo.msg \in {"Error al crear turno", "Error al actualizar estado"}
    /\ \E c \in Conexiones : pc[c] = "commit"

\* ------------------------------------------------------------------ C19
\* C19: an actualizar_estado_turno that returns True keeps the number of
\* appointments and every appointment with another id; of the named
\* appointment it keeps id, patient, physician, start and duration, sets
\* estado to nuevo_estado, and changes observaciones only to the value
\* passed, never when None is passed.  (SpecEstado.)
C19_SoloEstadoYObservaciones ==
    [][(ultimo'.op = "actualizar_estado_turno" /\ ultimo'.ret = TRUE) =>
          \A t \in 1..(MaxTurnos + 1), e \in EstadosPedidos, o \in ObservacionesPedidas :
              actualizar_estado_turno(t, e, o) =>
                  /\ Cardinality(turnos') = Cardinality(turnos)
                  /\ \A r \in turnos :
                         IF r.id # t THEN r \in turnos'
                         ELSE \E r2 \in turnos' :
                                  /\ r2.id = r.id
                                  /\ r2.paciente_id = r.paciente_id
                                  /\ r2.medico_id = r.medico_id
                                  /\ r2.fecha_hora = r.fecha_hora
                                  /\ r2.duracion = r.duracion
                                  /\ r2.estado = e
                                  /\ r2.observaciones \in {r.observaciones, o}
                                  /\ (o = SinObservaciones
                                          => r2.observaciones = r.observaciones)]_vars

\* A successful transition has returned with two appointments stored, one
\* cancelled and holding an observation, the other without observation.
C19_Witness ==
    /\ ultimo.op = "actualizar_estado_turno"
    /\ ultimo.ret = TRUE
    /\ Cardinality(turnos) = 2
    /\ \E r \in turnos : r.observaciones = "obs" /\ r.estado = "cancelado"
    /\ \E r \in turnos : r.observaciones = SinObservaciones

\* ------------------------------------------------------------------ C20
\* The answer of verificar_disponibilidad for physician m when table turnos
\* holds the appointments of m and no other.
DeMedico(m) == {r \in turnos : r.medico_id = m}

DisponibleSinOtros(m, f, d) ==
    /\ StrptimeOk(f)
    /\ tablas
    /\ CountEn(DeMedico(m), m, Strftime(Strptime(f)), Strftime(Strptime(f) + d)) = 0

\* C20: the appointments of other physicians do not affect a physician:
\* verificar_disponibilidad for m answers as it would with the appointments
\* of m alone in the table, crear_turno for m returns an id exactly in that
\* case, and a crear_turno with a well-formed start for a physician without
\* appointments returns an id whatever the others hold.  (SpecMedicos.)
C20_MedicosAislados ==
    [][/\ \A m \in Medicos, f \in FechaHoras, d \in UnaDuracion :
              verificar_disponibilidad(m, f, d) <=> DisponibleSinOtros(m, f, d)
       /\ ultimo'.op = "crear_turno" =>
              \A p \in UnPaciente, m \in Medicos, f \in FechaHoras, d \in UnaDuracion :
                  crear_turno(p, m, f, d) =>
                      /\ (ultimo'.ret # None) <=> DisponibleSinOtros(m, f, d)
                      /\ (tablas /\ StrptimeOk(f) /\ DeMedico(m) = {})
                             => ultimo'.ret # None]_vars

\* Two creates with overlapping intervals for different physicians have
\* both returned an id.
C20_Witness ==
    /\ ultimo.op = "crear_turno"
    /\ ultimo.ret # None
    /\ \E r1 \in turnos, r2 \in turnos :
           /\ r1.medico_id # r2.medico_id
           /\ r1.fecha_hora.fmt = "padded" /\ r2.fecha_hora.fmt = "padded"
           /\ SeSolapan(Inicio(r1), Fin(r1), Inicio(r2), Fin(r2))

====
